---- MODULE Spec2Model ----
(***************************************************************************)
(* Model of the run controller of the Coppel scraper: run_pdp (one row per *)
(* product URL, retry with backoff) and run_plp (listing walk with         *)
(* de-duplication and pagination), src/src/run_scraper.py, together with   *)
(* the parts of PlaywrightClient (src/src/coppel_playwright.py) they call. *)
(*                                                                         *)
(* Python rows are dicts held by reference: the output list and the local  *)
(* variable `row` may name the same dict.  The model keeps a heap `objs`   *)
(* of row records and lets `rows`, `row` hold indices into it.             *)
(***************************************************************************)
EXTENDS Integers, Sequences, FiniteSets, TLC

\* ---------------------------------------------------------------- bounds
MaxUrls == 2
MaxRetries == 2
MaxRuntime == 1
MaxClock == 2
TickSec == 2
MaxPagesBound == 2
MaxProducts == 2
MaxAttemptArg == 6
MaxBaseTail == 2
MaxPathLen == 4
MaxPriceLen == 5
MaxTextLen == 5

\* ------------------------------------------------------- value universes
URLS == {"u1", "u2"}
AboutBlank == "about:blank"
None == "None"
ExcMsg == "exc"
BlockedMsg == "Blocked by WAF/CDN"
ExtractedTitle == "T"

RECURSIVE SeqsUpTo(_, _)
SeqsUpTo(S, n) ==
    IF n = 0 THEN {<<>>}
    ELSE LET shorter == SeqsUpTo(S, n - 1)
         IN  shorter \cup {Append(s, x) : s \in {t \in shorter : Len(t) = n - 1}, x \in S}

VARIABLES
    settings,     \* the frozen Settings object
    pc,           \* position of the controller in run_pdp / run_plp
    now,          \* time.time(), in whole seconds since the run began
    start_time,   \* run_pdp / run_plp: start_time
    objs,         \* heap of row dicts
    rows,         \* the output list: indices into objs
    row,          \* local `row`: index into objs, 0 before the first row
    page,         \* local `page`
    exc,          \* the exception being handled (None when there is none)
    brk,          \* the try block was left by `break`
    \* run_pdp
    urls,         \* the input URL list
    urlIdx,       \* position of the `for url in urls` loop
    attempt,      \* the `for attempt in range(...)` loop variable
    start,        \* per-URL start time
    blocked,      \* local `blocked`
    \* history of run_pdp, kept for the properties
    started,      \* number of URLs whose processing was started
    outcomes,     \* the attempts made for the current URL: how each ended
    cur,          \* the latest attempt: what its navigation did
    \* run_plp
    plp_url,      \* the current listing URL
    page_index,   \* the `for page_index in range(...)` loop variable
    seen,         \* product URLs already emitted
    products,     \* what parse_plp_products returned for this page
    next_button,  \* what _find_next_button, is_visible, is_enabled found
    token,        \* the fingerprint captured before the click
    href,         \* the first link's href of the open page, now
    \* history of run_plp, kept for the properties
    opened,       \* number of open_page calls made
    confirmed,    \* wait_for_function saw the fingerprint differ from token
    advanced,     \* line 239 reassigned plp_url in this iteration
    \* main
    run_mode,     \* settings.mode
    warm_page,    \* local `page` of PlaywrightClient.warmup
    exit_code,    \* the exit status of the process, None while it runs
    \* one call of a pure function
    fn_call,      \* the function and its argument
    fn_ret        \* what the call returned, None before it did

pdpVars == <<urls, urlIdx, attempt, start, blocked, started, outcomes, cur>>
plpVars == <<plp_url, page_index, seen, products, next_button, token, href,
             opened, confirmed, advanced>>
mainVars == <<run_mode, warm_page, exit_code>>
fnVars == <<fn_call, fn_ret>>
vars == <<settings, pc, now, start_time, objs, rows, row, page, exc, brk,
          urls, urlIdx, attempt, start, blocked, started, outcomes, cur,
          plp_url, page_index, seen, products, next_button, token, href,
          opened, confirmed, advanced, run_mode, warm_page, exit_code,
          fn_call, fn_ret>>

\* ------------------------------------------------------------- settings
\* The fields of Settings each mode reads.  debug_save stands for
\* debug_save_html or debug_save_screenshot: take_debug returns at once
\* when both are off.
PdpSettings ==
    [ max_retries_per_url : 0..MaxRetries,
      max_runtime_sec     : 0..MaxRuntime,
      enable_stealth      : BOOLEAN,
      debug_save          : BOOLEAN ]
PlpSettings ==
    [ max_pages           : 0..MaxPagesBound,
      max_runtime_sec     : 0..MaxRuntime,
      enable_stealth      : BOOLEAN,
      debug_save          : BOOLEAN ]

\* ----------------------------------------------------------------- rows
\* _base_row: the fields the controller reads or writes, and `title` for
\* the extracted product fields.  `kind` records which statement built it,
\* `stamped` how many times elapsed_sec was assigned after the construction.
_base_row(mode, source_url, kind) ==
    [ kind |-> kind,
      mode |-> mode,
      source_url |-> source_url,
      final_url |-> "",
      product_url |-> "",
      title |-> "",
      http_status |-> "",
      page_type_detected |-> "unknown",
      status |-> "",
      error |-> "",
      attempts |-> 0,
      elapsed_sec |-> 0,
      stamped |-> 0 ]

\* the output as the caller sees it: the dicts the list refers to
Output == [i \in 1..Len(rows) |-> objs[rows[i]]]

\* a ceiling that is never reached
_never_stop(time, st, max_runtime_sec) == FALSE
\* _should_stop
_should_stop(time, st, max_runtime_sec) ==
    IF max_runtime_sec <= 0 THEN FALSE
    ELSE (time - st) > max_runtime_sec

\* PlaywrightClient.open_page: goto under "domcontentloaded", then under
\* "load" if the first raised; the status of the response, None without one.
\* A goto of the runs below answers with a response or raises.
GotoOutcomes == {"200", "noresponse", "raise"}
NavOutcomes == {"200", "raise"}
\* a goto failure under both readiness conditions escaping open_page
open_page_reraises(g1, g2) == g1 = "raise" /\ g2 = "raise"
\* lines 96-97: the except clause swallows the failure of a goto
open_page_raises(g1, g2) == FALSE
open_page_status(g1, g2) ==
    IF g1 # "raise" THEN (IF g1 = "noresponse" THEN None ELSE g1)
    ELSE IF g2 # "raise" THEN (IF g2 = "noresponse" THEN None ELSE g2)
    ELSE None
open_page_url(url, g1, g2) ==
    IF g1 = "raise" /\ g2 = "raise" THEN AboutBlank ELSE url

\* `status or ""`
StatusCell(status) == IF status = None THEN "" ELSE status

\* time.time() at a later read: the same at the clock's resolution, or one
\* tick of TickSec seconds more
Later == {t \in {now, now + TickSec} : t <= MaxClock}

\* ------------------------------------------------------------- run_pdp
InitPdp ==
    /\ settings \in PdpSettings
    /\ urls \in SeqsUpTo(URLS, MaxUrls)
    /\ pc = "pdp_for_url"
    /\ now = 0
    /\ start_time = 0
    /\ objs = <<>>
    /\ rows = <<>>
    /\ row = 0
    /\ page = None
    /\ exc = None
    /\ brk = FALSE
    /\ urlIdx = 1
    /\ attempt = 0
    /\ start = 0
    /\ blocked = FALSE
    /\ started = 0
    /\ outcomes = <<>>
    /\ cur = None
    /\ plp_url = ""
    /\ page_index = 0
    /\ seen = {}
    /\ products = <<>>
    /\ next_button = None
    /\ token = None
    /\ href = None
    /\ opened = 0
    /\ confirmed = FALSE
    /\ advanced = FALSE
    /\ run_mode = "pdp"
    /\ warm_page = None
    /\ exit_code = None
    /\ fn_call = None
    /\ fn_ret = None

\* lines 94-96: the next URL gets a fresh row
PdpStartUrl ==
    /\ pc = "pdp_for_url"
    /\ urlIdx <= Len(urls)
    /\ objs' = Append(objs, _base_row("pdp", urls[urlIdx], "url"))
    /\ row' = Len(objs) + 1
    /\ now' \in Later
    /\ start' = now'
    /\ attempt' = 0
    /\ started' = started + 1
    /\ outcomes' = <<>>
    /\ cur' = None
    /\ pc' = "pdp_for_attempt"
    /\ UNCHANGED <<settings, start_time, rows, page, exc, brk, urls, urlIdx, blocked>>
    /\ UNCHANGED plpVars
    /\ UNCHANGED <<mainVars, fnVars>>

\* line 153: the list is exhausted
PdpReturn ==
    /\ pc = "pdp_for_url"
    /\ urlIdx > Len(urls)
    /\ pc' = "done"
    /\ UNCHANGED <<settings, now, start_time, objs, rows, row, page, exc, brk>>
    /\ UNCHANGED pdpVars
    /\ UNCHANGED plpVars
    /\ UNCHANGED <<mainVars, fnVars>>

\* range(1, max_retries_per_url + 2): one attempt too many
AttemptRangeOneMore(max_retries_per_url) == 1..(max_retries_per_url + 1)
\* line 97: range(1, max_retries_per_url + 1)
AttemptRange(max_retries_per_url) == 1..max_retries_per_url

\* lines 97-100: next attempt, or the range is exhausted
PdpForAttempt ==
    /\ pc = "pdp_for_attempt"
    /\ IF attempt + 1 \in AttemptRange(settings.max_retries_per_url)
       THEN /\ attempt' = attempt + 1
            /\ objs' = [objs EXCEPT ![row].attempts = attempt + 1]
            /\ page' = None
            /\ cur' = "nonav"
            /\ pc' = "pdp_new_page"
       ELSE /\ pc' = "pdp_append"
            /\ UNCHANGED <<attempt, objs, page, cur>>
    /\ exc' = None
    /\ brk' = FALSE
    /\ blocked' = FALSE    \* dead until line 111 assigns it
    /\ UNCHANGED <<settings, now, start_time, rows, row, urls, urlIdx, start, started, outcomes>>
    /\ UNCHANGED plpVars
    /\ UNCHANGED <<mainVars, fnVars>>

\* line 102
PdpNewPage ==
    /\ pc = "pdp_new_page"
    /\ \/ /\ page' = "open"
          /\ pc' = "pdp_open_page"
          /\ exc' = None
       \/ /\ page' = None
          /\ pc' = "pdp_except"
          /\ exc' = ExcMsg
    /\ UNCHANGED <<settings, now, start_time, objs, rows, row, brk>>
    /\ UNCHANGED pdpVars
    /\ UNCHANGED plpVars
    /\ UNCHANGED <<mainVars, fnVars>>

\* lines 103-106: open_page swallows navigation failures
PdpOpenPage ==
    /\ pc = "pdp_open_page"
    /\ \E g1 \in NavOutcomes, g2 \in NavOutcomes :
         LET final_url == open_page_url(urls[urlIdx], g1, g2)
             status == open_page_status(g1, g2)
         IN  /\ (g1 # "raise" => g2 = "200")   \* the second goto is not made
             /\ cur' = IF g1 = "raise" /\ g2 = "raise" THEN "navfailed" ELSE "navok"
             /\ IF open_page_raises(g1, g2)
                THEN /\ pc' = "pdp_except"
                     /\ exc' = ExcMsg
                     /\ UNCHANGED objs
                ELSE /\ pc' = "pdp_stealth"
                     /\ exc' = None
                     /\ objs' = [objs EXCEPT ![row].final_url = final_url,
                                             ![row].product_url = final_url,
                                             ![row].http_status = StatusCell(status)]
    /\ UNCHANGED <<settings, now, start_time, rows, row, page, brk>>
    /\ UNCHANGED <<urls, urlIdx, attempt, start, blocked, started, outcomes>>
    /\ UNCHANGED plpVars
    /\ UNCHANGED <<mainVars, fnVars>>

\* lines 107-109: the cursor move, made only with enable_stealth
PdpStealth ==
    /\ pc = "pdp_stealth"
    /\ \/ /\ pc' = "pdp_detect"
          /\ exc' = None
       \/ /\ settings.enable_stealth
          /\ pc' = "pdp_except"
          /\ exc' = ExcMsg
    /\ UNCHANGED <<settings, now, start_time, objs, rows, row, page, brk>>
    /\ UNCHANGED pdpVars
    /\ UNCHANGED plpVars
    /\ UNCHANGED <<mainVars, fnVars>>

\* lines 110-112: handle_cookie_banner and detect_block never raise
PdpDetect ==
    /\ pc = "pdp_detect"
    /\ \E b \in BOOLEAN :
         /\ blocked' = b
         /\ objs' = [objs EXCEPT ![row].page_type_detected = IF b THEN "blocked" ELSE "pdp"]
         /\ pc' = IF b THEN "pdp_blocked" ELSE "pdp_content"
    /\ UNCHANGED <<settings, now, start_time, rows, row, page, exc, brk>>
    /\ UNCHANGED <<urls, urlIdx, attempt, start, started, outcomes, cur>>
    /\ UNCHANGED plpVars
    /\ UNCHANGED <<mainVars, fnVars>>

\* lines 113-116: take_debug is a no-op unless a debug flag is set
PdpBlocked ==
    /\ pc = "pdp_blocked"
    /\ objs' = [objs EXCEPT ![row].status = "BLOCK", ![row].error = BlockedMsg]
    /\ \/ /\ pc' = "pdp_close"
          /\ exc' = None
       \/ /\ settings.debug_save
          /\ pc' = "pdp_except"
          /\ exc' = ExcMsg
    /\ UNCHANGED <<settings, now, start_time, rows, row, page, brk>>
    /\ UNCHANGED pdpVars
    /\ UNCHANGED plpVars
    /\ UNCHANGED <<mainVars, fnVars>>

\* lines 118-119: page.content, then dump_html; either may raise
PdpContent ==
    /\ pc = "pdp_content"
    /\ \/ /\ pc' = "pdp_parse"
          /\ exc' = None
       \/ /\ pc' = "pdp_except"
          /\ exc' = ExcMsg
    /\ UNCHANGED <<settings, now, start_time, objs, rows, row, page, brk>>
    /\ UNCHANGED pdpVars
    /\ UNCHANGED plpVars
    /\ UNCHANGED <<mainVars, fnVars>>

\* lines 120-122: parse_pdp, row.update(data), status OK
PdpParse ==
    /\ pc = "pdp_parse"
    /\ \/ /\ objs' = [objs EXCEPT ![row].title = ExtractedTitle,
                                    ![row].product_url = objs[row].final_url,
                                    ![row].status = "OK"]
          /\ pc' = "pdp_close"
          /\ exc' = None
       \/ /\ pc' = "pdp_except"
          /\ exc' = ExcMsg
          /\ UNCHANGED objs
    /\ UNCHANGED <<settings, now, start_time, rows, row, page, brk>>
    /\ UNCHANGED pdpVars
    /\ UNCHANGED plpVars
    /\ UNCHANGED <<mainVars, fnVars>>

\* what the attempt that just ended was: its navigation and its end
Ended(how) == Append(outcomes, how)

\* `break` in the else branch only: a block falls through to the next attempt
BreakUnlessBlocked(b) == ~b
\* line 124: `break`, whichever branch of `if blocked` ran
BreakAfterAttempt(b) == TRUE

\* lines 123-124: page.close() and break
PdpClose ==
    /\ pc = "pdp_close"
    /\ \/ /\ page' = "closed"
          /\ brk' = BreakAfterAttempt(blocked)
          /\ pc' = "pdp_finally"
          /\ exc' = None
          /\ outcomes' = Ended(IF blocked THEN "block" ELSE "ok")
       \/ /\ page' \in {"open", "closed"}
          /\ pc' = "pdp_except"
          /\ exc' = ExcMsg
          /\ UNCHANGED <<brk, outcomes>>
    /\ UNCHANGED <<settings, now, start_time, objs, rows, row>>
    /\ UNCHANGED <<urls, urlIdx, attempt, start, blocked, started, cur>>
    /\ UNCHANGED plpVars
    /\ UNCHANGED <<mainVars, fnVars>>

\* the capture of line 131 without its try: its failure leaves the handler
HandlerCaptureUnguarded == TRUE
\* lines 130-133: the handler's take_debug sits in a try of its own, so its
\* failure does not leave the handler
HandlerCaptureEscapes == FALSE

\* the handler without the else branch of line 138
StatusFail(attempt_no, max_retries) == "FAIL"
\* lines 126 and 134-139: FAIL, which stays while attempts remain and is
\* replaced by RETRY_EXHAUSTED on the last attempt
HandlerStatus(attempt_no, max_retries) ==
    IF attempt_no < max_retries THEN "FAIL" ELSE "RETRY_EXHAUSTED"

\* lines 125-139: the handler; its debug capture, made when there is a page
\* and which can fail when a debug flag is set; the backoff sleep when
\* attempts remain.  An exception leaving the handler would pass the finally
\* clause (the page is closed) and leave run_pdp: pc "raised".
PdpExcept ==
    /\ pc = "pdp_except"
    /\ \E capture_raises \in {r \in BOOLEAN : r => (page # None /\ settings.debug_save)} :
         IF capture_raises /\ HandlerCaptureEscapes
         THEN /\ objs' = [objs EXCEPT ![row].status = "FAIL", ![row].error = exc]
              /\ page' = "closed"
              /\ pc' = "raised"
         ELSE /\ objs' = [objs EXCEPT
                              ![row].status =
                                  HandlerStatus(attempt, settings.max_retries_per_url),
                              ![row].error = exc]
              /\ page' = page
              /\ pc' = "pdp_finally"
    /\ outcomes' = Ended("exc")
    /\ exc' = None
    /\ UNCHANGED <<settings, now, start_time, rows, row, brk>>
    /\ UNCHANGED <<urls, urlIdx, attempt, start, blocked, started, cur>>
    /\ UNCHANGED plpVars
    /\ UNCHANGED <<mainVars, fnVars>>

\* a finally clause that does nothing
LeftAsIs(p) == p
\* lines 141-145 and 251-255: `if page:` page.close(), its failure swallowed
ClosedInFinally(p) == IF p = None THEN None ELSE "closed"

\* a `break` that is not one: the attempt loop goes on
LoopGoesOn(broke) == "pdp_for_attempt"
\* lines 97 and 124: `break` leaves the attempt loop for line 146, anything
\* else goes back to its head
AfterFinally(broke) == IF broke THEN "pdp_append" ELSE "pdp_for_attempt"

\* lines 140-145: close the page, whatever happens; then break or loop
PdpFinally ==
    /\ pc = "pdp_finally"
    /\ page' = ClosedInFinally(page)
    /\ pc' = AfterFinally(brk)
    /\ UNCHANGED <<settings, now, start_time, objs, rows, row, exc, brk>>
    /\ UNCHANGED pdpVars
    /\ UNCHANGED plpVars
    /\ UNCHANGED <<mainVars, fnVars>>

\* rows.insert(0, row)
ListPrepend(list, o) == <<o>> \o list
\* rows.append(row)
ListAppend(list, o) == Append(list, o)

\* lines 146-147
PdpAppend ==
    /\ pc = "pdp_append"
    /\ now' \in Later
    /\ objs' = [objs EXCEPT ![row].elapsed_sec = now' - start,
                            ![row].stamped = @ + 1]
    /\ rows' = ListAppend(rows, row)
    /\ pc' = "pdp_sleep"
    /\ UNCHANGED <<settings, start_time, row, page, exc, brk>>
    /\ UNCHANGED pdpVars
    /\ UNCHANGED plpVars
    /\ UNCHANGED <<mainVars, fnVars>>

\* lines 149-152: the inter-item sleep, then the runtime ceiling
PdpSleep ==
    /\ pc = "pdp_sleep"
    /\ now' \in Later
    /\ IF _should_stop(now', start_time, settings.max_runtime_sec)
       THEN pc' = "done" /\ urlIdx' = urlIdx
       ELSE pc' = "pdp_for_url" /\ urlIdx' = urlIdx + 1
    /\ UNCHANGED <<settings, start_time, objs, rows, row, page, exc, brk>>
    /\ UNCHANGED <<urls, attempt, start, blocked, started, outcomes, cur>>
    /\ UNCHANGED plpVars
    /\ UNCHANGED <<mainVars, fnVars>>

NextPdp ==
    \/ PdpStartUrl \/ PdpReturn \/ PdpForAttempt \/ PdpNewPage \/ PdpOpenPage
    \/ PdpStealth \/ PdpDetect \/ PdpBlocked \/ PdpContent \/ PdpParse
    \/ PdpClose \/ PdpExcept \/ PdpFinally \/ PdpAppend \/ PdpSleep

SpecPdp == InitPdp /\ [][NextPdp]_vars

\* ------------------------------------------------- properties of run_pdp
Last(q) == q[Len(q)]
\* the row of the URL whose attempts `outcomes` describes is in the output
PdpRowOut == pc \in {"pdp_sleep", "pdp_for_url", "done"} /\ rows # <<>>
LastRow == Output[Len(rows)]

\* C1: the output holds exactly one row per URL whose processing was
\* started, each its own dict, in input order (the source_url values are a
\* prefix of the input list); a URL the runtime cutoff skipped has no row.
C1_OneRowPerStartedUrl ==
    /\ started <= Len(urls)
    /\ Len(rows) = (IF pc \in {"pdp_for_attempt", "pdp_new_page", "pdp_open_page",
                               "pdp_stealth", "pdp_detect", "pdp_blocked", "pdp_content",
                               "pdp_parse", "pdp_close", "pdp_except", "pdp_finally",
                               "pdp_append"}
                   THEN started - 1 ELSE started)
    /\ \A i \in 1..Len(rows) : Output[i].source_url = urls[i]
    /\ \A i, j \in 1..Len(rows) : rows[i] = rows[j] => i = j

\* the cutoff left the second URL of a two-URL list without a row, after
\* the first one was retried
C1_Witness ==
    /\ pc = "done"
    /\ Len(urls) = 2
    /\ Len(rows) = 1
    /\ Len(outcomes) = 2

\* C2: a URL all of whose attempts ended in an unexpected failure was
\* attempted exactly max_retries_per_url times; its row says so in
\* `attempts` and has status RETRY_EXHAUSTED.  No URL is attempted more
\* often than the ceiling.
C2_RetryCeiling ==
    /\ attempt <= settings.max_retries_per_url
    /\ Len(outcomes) <= settings.max_retries_per_url
    /\ (PdpRowOut /\ outcomes # <<>> /\ \A k \in 1..Len(outcomes) : outcomes[k] = "exc")
          => /\ Len(outcomes) = settings.max_retries_per_url
             /\ LastRow.attempts = settings.max_retries_per_url
             /\ LastRow.status = "RETRY_EXHAUSTED"

C2_Witness ==
    /\ PdpRowOut
    /\ outcomes = <<"exc", "exc">>
    /\ LastRow.status = "RETRY_EXHAUSTED"

C4_NavFailureNotOk ==
    (PdpRowOut /\ cur = "navfailed") => LastRow.status # "OK"

\* C4, amended: open_page swallows a navigation failure: it returns, and the
\* attempt goes on with the page's URL and an absent HTTP status, towards
\* BLOCK or OK.  The URL is attempted again only after an attempt in which an
\* exception escaped a step (row status FAIL then), never beyond the ceiling.
C4_NavFailureSwallowed ==
    /\ cur = "navfailed"
          => /\ objs[row].final_url = AboutBlank
             /\ objs[row].http_status = ""
    /\ (pc = "pdp_new_page" /\ attempt > 1)
          => /\ Last(outcomes) = "exc"
             /\ objs[row].status = "FAIL"
    /\ attempt <= settings.max_retries_per_url

\* the first attempt's navigation failed, and the row came out OK after it
C4_Witness ==
    /\ PdpRowOut
    /\ cur = "navfailed"
    /\ settings.max_retries_per_url = 2
    /\ LastRow.attempts = 1
    /\ LastRow.status = "OK"
    /\ LastRow.http_status = ""

\* C11: no failure of a collaborator call made during an attempt leaves
\* run_pdp: an exception is pending in the handler only; a URL with a failed
\* attempt still has its row, the last of the output once its attempts are
\* over; and run_pdp ends only with its list exhausted and one row per URL,
\* or on the runtime ceiling.
C11_NoFailureEscapes ==
    /\ pc # "raised"
    /\ exc # None => pc = "pdp_except"
    /\ (PdpRowOut /\ \E k \in 1..Len(outcomes) : outcomes[k] = "exc")
          => /\ Len(rows) = started
             /\ LastRow.source_url = urls[started]
             /\ LastRow.status \in {"OK", "BLOCK", "RETRY_EXHAUSTED"}
    /\ (pc = "done" /\ urlIdx > Len(urls)) => Len(rows) = Len(urls)
    /\ (pc = "done" /\ urlIdx <= Len(urls))
          => /\ settings.max_runtime_sec > 0
             /\ now - start_time > settings.max_runtime_sec

\* every attempt of the first URL failed with the debug capture on, and the
\* second URL was processed after it
C11_Witness ==
    /\ pc = "done"
    /\ settings.debug_save
    /\ Len(rows) = 2
    /\ Output[1].status = "RETRY_EXHAUSTED"
    /\ Output[1].attempts = 2
    /\ Output[2].status = "OK"

\* C14: with a ceiling set, the check made after a URL's inter-item sleep
\* that finds the run time above it ends run_pdp: no further URL is started
\* and the rows stay as they are.  run_pdp ends nowhere else but there and
\* at the end of its list: not inside a URL's attempts or backoff waits,
\* however late it is; a URL is started at the head of the loop only.
C14_CeilingBetweenUrls ==
    [][ /\ (pc = "pdp_sleep" /\ settings.max_runtime_sec > 0
             /\ now' - start_time > settings.max_runtime_sec)
           => (pc' = "done" /\ rows' = rows /\ started' = started)
        /\ (pc = "pdp_sleep" /\ pc' = "done")
           => (settings.max_runtime_sec > 0
               /\ now' - start_time > settings.max_runtime_sec)
        /\ (pc' = "done" /\ pc # "done") => pc \in {"pdp_sleep", "pdp_for_url"}
        /\ (pc = "pdp_for_url" /\ pc' = "done") => urlIdx > Len(urls)
        /\ started' # started => (pc = "pdp_for_url" /\ urlIdx <= Len(urls))
        /\ pc = "done" => (started' = started /\ rows' = rows)
      ]_vars

\* the ceiling was passed while the first URL's two attempts were made; both
\* were made, its row is out, and the second URL was not started
C14_Witness ==
    /\ pc = "done"
    /\ urlIdx < Len(urls)
    /\ started = 1
    /\ settings.max_runtime_sec > 0
    /\ LastRow.elapsed_sec > settings.max_runtime_sec
    /\ LastRow.attempts = 2

\* C17: the row of a URL whose last attempt was a detected block has status
\* BLOCK, page type 'blocked', and its extracted product fields (title
\* stands for them) at the defaults of _base_row.
C17_BlockRowDefaults ==
    (PdpRowOut /\ outcomes # <<>> /\ Last(outcomes) = "block")
        => /\ LastRow.status = "BLOCK"
           /\ LastRow.page_type_detected = "blocked"
           /\ LastRow.title = _base_row("pdp", LastRow.source_url, "url").title

PRODUCT_URLS == {"", "p1"}
FINGERPRINTS == {"h1", "h2"}

InitPlp ==
    /\ settings \in PlpSettings
    /\ plp_url \in URLS
    /\ pc = "plp_for_page"
    /\ now = 0
    /\ start_time = 0
    /\ objs = <<>>
    /\ rows = <<>>
    /\ row = 0
    /\ page = None
    /\ exc = None
    /\ brk = FALSE
    /\ urls = <<>>
    /\ urlIdx = 1
    /\ attempt = 0
    /\ start = 0
    /\ blocked = FALSE
    /\ started = 0
    /\ outcomes = <<>>
    /\ cur = None
    /\ page_index = 0
    /\ seen = {}
    /\ products = <<>>
    /\ next_button = None
    /\ token = None
    /\ href = None
    /\ opened = 0
    /\ confirmed = FALSE
    /\ advanced = FALSE
    /\ run_mode = "plp"
    /\ warm_page = None
    /\ exit_code = None
    /\ fn_call = None
    /\ fn_ret = None

\* line 176 with a range one page too long
PageRangeOneMore(max_pages) == 1..(max_pages + 1)
\* line 176: range(1, max_pages + 1)
PageRange(max_pages) == 1..max_pages

\* lines 176-182: next page unless the range or the runtime is exhausted
PlpForPage ==
    /\ pc = "plp_for_page"
    /\ page_index + 1 \in PageRange(settings.max_pages)
    /\ now' \in Later
    /\ ~_should_stop(now', start_time, settings.max_runtime_sec)
    /\ page_index' = page_index + 1
    /\ objs' = Append(objs, _base_row("plp", plp_url, "page"))
    /\ row' = Len(objs) + 1
    /\ page' = None
    /\ pc' = "plp_new_page"
    /\ exc' = None
    /\ brk' = FALSE
    /\ blocked' = FALSE
    /\ products' = <<>>
    /\ next_button' = None
    /\ token' = None
    /\ href' = None
    /\ confirmed' = FALSE
    /\ advanced' = FALSE
    /\ UNCHANGED <<settings, start_time, rows, plp_url, seen, opened>>
    /\ UNCHANGED <<urls, urlIdx, attempt, start, started, outcomes, cur>>
    /\ UNCHANGED <<mainVars, fnVars>>

\* lines 176-179 and 256: the range is exhausted, or the runtime is
PlpReturn ==
    /\ pc = "plp_for_page"
    /\ \/ /\ page_index + 1 \notin PageRange(settings.max_pages)
          /\ now' = now
       \/ /\ page_index + 1 \in PageRange(settings.max_pages)
          /\ now' \in Later
          /\ _should_stop(now', start_time, settings.max_runtime_sec)
    /\ pc' = "done"
    /\ UNCHANGED <<settings, start_time, objs, rows, row, page, exc, brk>>
    /\ UNCHANGED pdpVars
    /\ UNCHANGED plpVars
    /\ UNCHANGED <<mainVars, fnVars>>

\* a step of the try block that touches no variable of the controller:
\* it returns, or it raises into the handler of line 240
PlpStep(here, next, may_raise) ==
    /\ pc = here
    /\ \/ /\ pc' = next
          /\ exc' = None
       \/ /\ may_raise
          /\ pc' = "plp_except"
          /\ exc' = ExcMsg

\* line 184
PlpNewPage ==
    /\ pc = "plp_new_page"
    /\ \/ /\ page' = "open"
          /\ pc' = "plp_open_page"
          /\ exc' = None
       \/ /\ page' = None
          /\ pc' = "plp_except"
          /\ exc' = ExcMsg
    /\ UNCHANGED <<settings, now, start_time, objs, rows, row, brk>>
    /\ UNCHANGED pdpVars
    /\ UNCHANGED plpVars
    /\ UNCHANGED <<mainVars, fnVars>>

\* lines 185-187
PlpOpenPage ==
    /\ pc = "plp_open_page"
    /\ \E g1 \in NavOutcomes, g2 \in NavOutcomes :
         LET final_url == open_page_url(plp_url, g1, g2)
             status == open_page_status(g1, g2)
         IN  /\ (g1 # "raise" => g2 = "200")   \* the second goto is not made
             /\ IF open_page_raises(g1, g2)
                THEN /\ pc' = "plp_except"
                     /\ exc' = ExcMsg
                     /\ UNCHANGED objs
                ELSE /\ pc' = "plp_stealth"
                     /\ exc' = None
                     /\ objs' = [objs EXCEPT ![row].final_url = final_url,
                                             ![row].http_status = StatusCell(status)]
    /\ opened' = opened + 1
    /\ UNCHANGED <<settings, now, start_time, rows, row, page, brk>>
    /\ UNCHANGED pdpVars
    /\ UNCHANGED <<plp_url, page_index, seen, products, next_button, token, href,
                   confirmed, advanced>>
    /\ UNCHANGED <<mainVars, fnVars>>

\* lines 188-190: the cursor move, made only with enable_stealth
PlpStealth ==
    /\ PlpStep("plp_stealth", "plp_detect", settings.enable_stealth)
    /\ UNCHANGED <<settings, now, start_time, objs, rows, row, page, brk>>
    /\ UNCHANGED pdpVars
    /\ UNCHANGED plpVars
    /\ UNCHANGED <<mainVars, fnVars>>

\* lines 191-192: handle_cookie_banner and detect_block never raise
PlpDetect ==
    /\ pc = "plp_detect"
    /\ \E b \in BOOLEAN :
         /\ blocked' = b
         /\ pc' = IF b THEN "plp_blocked" ELSE "plp_content"
    /\ UNCHANGED <<settings, now, start_time, objs, rows, row, page, exc, brk>>
    /\ UNCHANGED <<urls, urlIdx, attempt, start, started, outcomes, cur>>
    /\ UNCHANGED plpVars
    /\ UNCHANGED <<mainVars, fnVars>>

\* lines 193-198: the block is recorded, and the walk is over
PlpBlocked ==
    /\ pc = "plp_blocked"
    /\ LET marked == [objs EXCEPT ![row].status = "BLOCK",
                                  ![row].page_type_detected = "blocked",
                                  ![row].error = BlockedMsg]
       IN  \/ /\ objs' = marked
              /\ rows' = ListAppend(rows, row)
              /\ brk' = TRUE
              /\ pc' = "plp_finally"
              /\ exc' = None
           \/ /\ settings.debug_save      \* take_debug raises
              /\ objs' = marked
              /\ pc' = "plp_except"
              /\ exc' = ExcMsg
              /\ UNCHANGED <<rows, brk>>
    /\ UNCHANGED <<settings, now, start_time, row, page>>
    /\ UNCHANGED pdpVars
    /\ UNCHANGED plpVars
    /\ UNCHANGED <<mainVars, fnVars>>

\* lines 199-200: dump_html and page.content; either may raise
PlpContent ==
    /\ PlpStep("plp_content", "plp_parse", TRUE)
    /\ UNCHANGED <<settings, now, start_time, objs, rows, row, page, brk>>
    /\ UNCHANGED pdpVars
    /\ UNCHANGED plpVars
    /\ UNCHANGED <<mainVars, fnVars>>

\* line 207 without the membership test: nothing is skipped
NeverDuplicate(product_url, seen_so_far) == FALSE
\* line 207: `if product_url and product_url in seen`
IsDuplicate(product_url, seen_so_far) ==
    product_url # "" /\ product_url \in seen_so_far

\* lines 210-215: the row of one listing item
ProductRow(source_url, final_url, product_url) ==
    [ _base_row("plp", source_url, "product") EXCEPT
        !.title = ExtractedTitle,
        !.final_url = final_url,
        !.product_url = product_url,
        !.status = "OK",
        !.page_type_detected = "plp" ]

\* lines 205-216: the product rows of `items`, given the URLs seen so far
RECURSIVE NewProductRows(_, _, _, _)
NewProductRows(items, seen_so_far, source_url, final_url) ==
    IF items = <<>> THEN <<>>
    ELSE IF IsDuplicate(Head(items), seen_so_far)
         THEN NewProductRows(Tail(items), seen_so_far, source_url, final_url)
         ELSE <<ProductRow(source_url, final_url, Head(items))>>
              \o NewProductRows(Tail(items), seen_so_far \cup {Head(items)},
                                source_url, final_url)

\* lines 201-216: parse, the page row, then one row per item not seen before
PlpParse ==
    /\ pc = "plp_parse"
    /\ \/ \E items \in SeqsUpTo(PRODUCT_URLS, MaxProducts) :
            LET marked == [objs EXCEPT ![row].page_type_detected = "plp",
                                       ![row].status = "OK"]
                new == NewProductRows(items, seen, plp_url, objs[row].final_url)
            IN  /\ products' = items
                /\ objs' = marked \o new
                /\ rows' = ListAppend(rows, row)
                             \o [k \in 1..Len(new) |-> Len(objs) + k]
                /\ seen' = seen \cup {items[k] : k \in 1..Len(items)}
                /\ pc' = "plp_find_next"
                /\ exc' = None
       \/ /\ pc' = "plp_except"      \* parse_plp_products raises
          /\ exc' = ExcMsg
          /\ UNCHANGED <<products, objs, rows, seen>>
    /\ UNCHANGED <<settings, now, start_time, row, page, brk>>
    /\ UNCHANGED pdpVars
    /\ UNCHANGED <<plp_url, page_index, next_button, token, href, opened, confirmed, advanced>>
    /\ UNCHANGED <<mainVars, fnVars>>

\* lines 218-219 alone, without the is_enabled test of line 220
EndsWalkUnlessDisabled(control) == control \in {"absent", "hidden"}
\* lines 218-221: the walk ends on a control that is absent, not visible or
\* not enabled
EndsWalk(control) == control \in {"absent", "hidden", "disabled"}

\* lines 217-221: the next control, its visibility, its being enabled
PlpFindNext ==
    /\ pc = "plp_find_next"
    /\ \/ \E control \in {"absent", "hidden", "disabled", "ready"} :
            /\ next_button' = control
            /\ IF EndsWalk(control)
               THEN pc' = "plp_finally" /\ brk' = TRUE
               ELSE pc' = "plp_token" /\ brk' = FALSE
            /\ exc' = None
       \/ /\ pc' = "plp_except"      \* a locator call raises
          /\ exc' = ExcMsg
          /\ UNCHANGED <<next_button, brk>>
    /\ products' = <<>>            \* dead once the loop of line 205 is over
    /\ UNCHANGED <<settings, now, start_time, objs, rows, row, page>>
    /\ UNCHANGED pdpVars
    /\ UNCHANGED <<plp_url, page_index, seen, token, href, opened, confirmed, advanced>>
    /\ UNCHANGED <<mainVars, fnVars>>

\* line 222: the fingerprint before the click
PlpToken ==
    /\ pc = "plp_token"
    /\ \/ \E h \in FINGERPRINTS :
            /\ token' = h
            /\ href' = h
            /\ pc' = "plp_click"
            /\ exc' = None
       \/ /\ pc' = "plp_except"
          /\ exc' = ExcMsg
          /\ UNCHANGED <<token, href>>
    /\ UNCHANGED <<settings, now, start_time, objs, rows, row, page, brk>>
    /\ UNCHANGED pdpVars
    /\ UNCHANGED <<plp_url, page_index, seen, products, next_button, opened, confirmed, advanced>>
    /\ UNCHANGED <<mainVars, fnVars>>

\* lines 223-224: scroll into view and click; the page may or may not change
PlpClick ==
    /\ pc = "plp_click"
    /\ \/ /\ href' \in FINGERPRINTS
          /\ pc' = "plp_wait"
          /\ exc' = None
       \/ /\ pc' = "plp_except"
          /\ exc' = ExcMsg
          /\ UNCHANGED href
    /\ UNCHANGED <<settings, now, start_time, objs, rows, row, page, brk>>
    /\ UNCHANGED pdpVars
    /\ UNCHANGED <<plp_url, page_index, seen, products, next_button, token, opened, confirmed, advanced>>
    /\ UNCHANGED <<mainVars, fnVars>>

\* lines 225-235: wait for the fingerprint to differ from token; when the
\* wait raises (its timeout, or anything else), click through the page's
\* script and wait one second
PlpWait ==
    /\ pc = "plp_wait"
    /\ \/ /\ href # token            \* wait_for_function returns
          /\ confirmed' = TRUE
          /\ pc' = "plp_advance"
          /\ exc' = None
          /\ UNCHANGED href
       \/ /\ href' \in FINGERPRINTS  \* it raised; the script-level click returns
          /\ confirmed' = FALSE
          /\ pc' = "plp_advance"
          /\ exc' = None
       \/ /\ confirmed' = FALSE      \* it raised; page.evaluate raises too
          /\ pc' = "plp_except"
          /\ exc' = ExcMsg
          /\ UNCHANGED href
    /\ UNCHANGED <<settings, now, start_time, objs, rows, row, page, brk>>
    /\ UNCHANGED pdpVars
    /\ UNCHANGED <<plp_url, page_index, seen, products, next_button, token, opened, advanced>>
    /\ UNCHANGED <<mainVars, fnVars>>

\* lines 236-239: read the page's URL, close the page, sleep, move on
PlpAdvance ==
    /\ pc = "plp_advance"
    /\ \/ \E next_url \in URLS :
            /\ plp_url' = next_url
            /\ advanced' = TRUE
            /\ page' = "closed"
            /\ pc' = "plp_finally"
            /\ exc' = None
       \/ /\ page' \in {"open", "closed"}     \* page.close raises
          /\ pc' = "plp_except"
          /\ exc' = ExcMsg
          /\ UNCHANGED <<plp_url, advanced>>
    /\ UNCHANGED <<settings, now, start_time, objs, rows, row, brk>>
    /\ UNCHANGED pdpVars
    /\ UNCHANGED <<page_index, seen, products, next_button, token, href, opened, confirmed>>
    /\ UNCHANGED <<mainVars, fnVars>>

\* lines 240-249: the handler marks the row, appends it, and ends the walk
PlpExcept ==
    /\ pc = "plp_except"
    /\ objs' = [objs EXCEPT ![row].status = "FAIL", ![row].error = exc]
    /\ rows' = ListAppend(rows, row)
    /\ brk' = TRUE
    /\ exc' = None
    /\ pc' = "plp_finally"
    /\ UNCHANGED <<settings, now, start_time, row, page>>
    /\ UNCHANGED pdpVars
    /\ UNCHANGED plpVars
    /\ UNCHANGED <<mainVars, fnVars>>

\* lines 250-255: close the page, whatever happens; then break or loop
PlpFinally ==
    /\ pc = "plp_finally"
    /\ page' = ClosedInFinally(page)
    /\ pc' = IF brk THEN "done" ELSE "plp_for_page"
    /\ token' = None                \* the locals of the advance are dead
    /\ href' = None
    /\ confirmed' = FALSE
    /\ advanced' = FALSE
    /\ UNCHANGED <<settings, now, start_time, objs, rows, row, exc, brk>>
    /\ UNCHANGED pdpVars
    /\ UNCHANGED <<plp_url, page_index, seen, products, next_button, opened>>
    /\ UNCHANGED <<mainVars, fnVars>>

NextPlp ==
    \/ PlpForPage \/ PlpReturn \/ PlpNewPage \/ PlpOpenPage \/ PlpStealth
    \/ PlpDetect \/ PlpBlocked \/ PlpContent \/ PlpParse \/ PlpFindNext
    \/ PlpToken \/ PlpClick \/ PlpWait \/ PlpAdvance \/ PlpExcept \/ PlpFinally

SpecPlp == InitPlp /\ [][NextPlp]_vars

\* run_plp is one coroutine that main awaits (line 306): the event loop runs
\* it whenever the call it awaits has returned or raised, and every awaited
\* call of lines 184-255 does one or the other (the navigation, the waits
\* and the sleep all carry a timeout)
SpecPlpFair == SpecPlp /\ WF_vars(NextPlp)

\* ------------------------------------------------- properties of run_plp
\* C25: run_plp comes to its end in every run, and at no moment has it
\* opened more listing pages than max_pages, whatever the next control and
\* the fingerprint do (a control found ready on every page and a
\* fingerprint that never changes included).
C25_TerminatesWithinMaxPages ==
    /\ <>(pc = "done")
    /\ [](opened <= settings.max_pages)

\* the next control was ready on every page and the walk advanced each
\* time: the range alone ended it, after max_pages pages
C25_Witness ==
    /\ pc = "done"
    /\ settings.max_pages = MaxPagesBound
    /\ page_index = MaxPagesBound
    /\ opened = MaxPagesBound
    /\ next_button = "ready"
    /\ ~brk

\* the positions of the output list that refer to the dict o
Positions(o) == {i \in 1..Len(rows) : rows[i] = o}
ProductPositions == {i \in 1..Len(rows) : Output[i].kind = "product"}
IterationOver == pc \in {"plp_for_page", "done"}

\* C5: every iteration of the walk puts its page row into the output exactly
\* once, whatever the iteration's outcome, an exception raised after the
\* page's rows were emitted included.
C5_OnePageRowPerPage ==
    \A o \in 1..Len(objs) :
        objs[o].kind = "page"
            => /\ Cardinality(Positions(o)) <= 1
               /\ IterationOver => Cardinality(Positions(o)) = 1

\* C6, as claimed: no two product rows of the output carry the same
\* product_url, whatever its value.
C6_NoTwoRowsSameUrl ==
    \A i, j \in ProductPositions :
        Output[i].product_url = Output[j].product_url => i = j

\* C6, amended: no two product rows of the output carry the same non-empty
\* product_url, on one page or across pages; items without a product_url are
\* never skipped, each gets its row.
C6_NoTwoRowsSameNonEmptyUrl ==
    /\ \A i, j \in ProductPositions :
          (Output[i].product_url = Output[j].product_url /\ i # j)
              => Output[i].product_url = ""
    /\ \A u \in PRODUCT_URLS \ {""} :
          (u \in seen) <=> (\E i \in ProductPositions : Output[i].product_url = u)

\* page 2 lists a product URL that page 1 listed, and the output has its
\* row once, from page 1
C6_Witness ==
    /\ pc = "plp_find_next"
    /\ page_index = 2
    /\ \E k \in 1..Len(products) : products[k] = "p1"
    /\ \E i \in ProductPositions :
          /\ Output[i].product_url = "p1"
          /\ \A p \in Positions(row) : i < p
          /\ \A j \in ProductPositions : Output[j].product_url = "p1" => j = i

\* C7: the walk moves on to another page only when the fingerprint changed.
\* The claim asks for more (the change must have been observed by the wait
\* of line 227); this weaker statement follows from it, so a run that
\* violates it violates the claim.
C7_AdvanceOnlyOnChange ==
    advanced => (confirmed \/ href # token)

\* C8: a block ends the walk with one row of status BLOCK and page type
\* 'blocked' for the page, no product row for it, and no further page.
C8_BlockRow ==
    (blocked /\ pc \in {"plp_finally", "done"})
        => /\ Positions(row) = {Len(rows)}
           /\ objs[row].status = "BLOCK"
           /\ objs[row].page_type_detected = "blocked"
           /\ opened = page_index
           /\ brk

\* C9: when the next control is absent, not visible or not enabled, the walk
\* ends: the page row is in the output once with status OK, followed by the
\* page's product rows only, and no further page is opened.
C9_NoNextEndsWalk ==
    next_button \in {"absent", "hidden", "disabled"}
        => /\ pc \in {"plp_finally", "done"}
           /\ brk
           /\ objs[row].status = "OK"
           /\ objs[row].page_type_detected = "plp"
           /\ Cardinality(Positions(row)) = 1
           /\ \A p \in Positions(row) : \A j \in (p + 1)..Len(rows) :
                 /\ Output[j].kind = "product"
                 /\ Output[j].source_url = objs[row].source_url
           /\ opened = page_index

\* the second page had product rows and no usable next control
C9_Witness ==
    /\ pc = "done"
    /\ next_button = "disabled"
    /\ page_index = 2
    /\ Output[Len(rows)].kind = "product"
    /\ objs[row].status = "OK"

\* C10: a row in the output keeps every field it had when it was appended.
C10_NoMutationAfterAppend ==
    [][\A i \in 1..Len(rows) : objs'[rows[i]] = objs[rows[i]]]_vars

\* ----------------------------------------------------------------- main
MODES == {"pdp", "plp", "other"}

\* lines 260-294: the settings are read, the URL list is read and cut to
\* max_urls, the client is built; nothing has run yet
InitMain ==
    /\ run_mode \in MODES
    /\ \/ /\ run_mode = "pdp"
          /\ settings \in PdpSettings
          /\ urls \in SeqsUpTo(URLS, MaxUrls)
          /\ plp_url = ""
       \/ /\ run_mode = "plp"
          /\ settings \in PlpSettings
          /\ urls = <<>>
          /\ plp_url \in URLS \cup {""}
       \/ /\ run_mode = "other"
          /\ settings \in PdpSettings
          /\ urls = <<>>
          /\ plp_url = ""
    /\ pc = "main_start"
    /\ now = 0
    /\ start_time = 0
    /\ objs = <<>>
    /\ rows = <<>>
    /\ row = 0
    /\ page = None
    /\ exc = None
    /\ brk = FALSE
    /\ urlIdx = 1
    /\ attempt = 0
    /\ start = 0
    /\ blocked = FALSE
    /\ started = 0
    /\ outcomes = <<>>
    /\ cur = None
    /\ page_index = 0
    /\ seen = {}
    /\ products = <<>>
    /\ next_button = None
    /\ token = None
    /\ href = None
    /\ opened = 0
    /\ confirmed = FALSE
    /\ advanced = FALSE
    /\ warm_page = None
    /\ exit_code = None
    /\ fn_call = None
    /\ fn_ret = None

\* an exception leaves main: asyncio.run re-raises it, sys.exit is not
\* reached, and the interpreter ends with status 1
MainRaises ==
    /\ pc' = "main_raised"
    /\ exit_code' = 1

\* line 295: client.start() launches the browser, or fails
MainStart ==
    /\ pc = "main_start"
    /\ \/ pc' = "warmup_new_page" /\ exit_code' = exit_code
       \/ MainRaises
    /\ UNCHANGED <<settings, now, start_time, objs, rows, row, page, exc, brk>>
    /\ UNCHANGED <<run_mode, warm_page>>
    /\ UNCHANGED <<pdpVars, plpVars, fnVars>>

\* PlaywrightClient.warmup, line 139: the warmup page
WarmupNewPage ==
    /\ pc = "warmup_new_page"
    /\ \/ warm_page' = "open" /\ pc' = "warmup_navigate"
       \/ warm_page' = None /\ pc' = "main_dispatch"     \* raised, logged
    /\ UNCHANGED <<settings, now, start_time, objs, rows, row, page, exc, brk>>
    /\ UNCHANGED <<run_mode, exit_code>>
    /\ UNCHANGED <<pdpVars, plpVars, fnVars>>

\* warmup, lines 140-142 and 144-145: goto, the cookie banner, the wait of
\* one second; a failure is logged and warmup returns
WarmupNavigate ==
    /\ pc = "warmup_navigate"
    /\ \/ pc' = "warmup_close"
       \/ pc' = "main_dispatch"
    /\ UNCHANGED <<settings, now, start_time, objs, rows, row, page, exc, brk>>
    /\ UNCHANGED mainVars
    /\ UNCHANGED <<pdpVars, plpVars, fnVars>>

\* warmup, line 143: page.close(); when it raises the page may be left open
WarmupClose ==
    /\ pc = "warmup_close"
    /\ warm_page' \in {"closed", "open"}
    /\ pc' = "main_dispatch"
    /\ UNCHANGED <<settings, now, start_time, objs, rows, row, page, exc, brk>>
    /\ UNCHANGED <<run_mode, exit_code>>
    /\ UNCHANGED <<pdpVars, plpVars, fnVars>>

\* lines 298-307: the mode decides what runs; run_pdp and run_plp take
\* their start_time on entry
MainDispatch ==
    /\ pc = "main_dispatch"
    /\ pc' = IF run_mode = "pdp" THEN "pdp_for_url"
             ELSE IF run_mode = "plp" /\ plp_url # "" THEN "plp_for_page"
             ELSE "main_finally"
    /\ start_time' = now
    /\ UNCHANGED <<settings, now, objs, rows, row, page, exc, brk>>
    /\ UNCHANGED mainVars
    /\ UNCHANGED <<pdpVars, plpVars, fnVars>>

\* lines 308-309: client.close(), after the run returned or was not made
MainFinally ==
    /\ pc \in {"done", "main_finally"}
    /\ \/ pc' = "main_save" /\ exit_code' = exit_code
       \/ MainRaises
    /\ UNCHANGED <<settings, now, start_time, objs, rows, row, page, exc, brk>>
    /\ UNCHANGED <<run_mode, warm_page>>
    /\ UNCHANGED <<pdpVars, plpVars, fnVars>>

\* len(rows)
row_count(out) == Len(out)
\* line 329
ok_count(out) == Cardinality({i \in 1..Len(out) : out[i].status = "OK"})

\* lines 315-334: save_csv, save_xlsx, write_json, send_email: a writer or
\* the attaching of a file can fail; otherwise the return value of main is
\* the exit status
MainReturn ==
    /\ pc = "main_save"
    /\ \/ /\ exit_code' = IF ok_count(Output) > 0 THEN 0 ELSE 1
          /\ pc' = "exited"
       \/ MainRaises
    /\ UNCHANGED <<settings, now, start_time, objs, rows, row, page, exc, brk>>
    /\ UNCHANGED <<run_mode, warm_page>>
    /\ UNCHANGED <<pdpVars, plpVars, fnVars>>

NextMain ==
    \/ MainStart \/ WarmupNewPage \/ WarmupNavigate \/ WarmupClose
    \/ MainDispatch \/ MainFinally \/ MainReturn
    \/ NextPdp \/ NextPlp

SpecMain == InitMain /\ [][NextMain]_vars

\* ---------------------------------------------------- properties of main
\* the positions at which a page of run_pdp or run_plp exists: inside the try
InTry ==
    {"pdp_open_page", "pdp_stealth", "pdp_detect", "pdp_blocked", "pdp_content",
     "pdp_parse", "pdp_close", "pdp_except", "pdp_finally",
     "plp_open_page", "plp_stealth", "plp_detect", "plp_blocked", "plp_content",
     "plp_parse", "plp_find_next", "plp_token", "plp_click", "plp_wait",
     "plp_advance", "plp_except", "plp_finally"}

\* C12: a page created by run_pdp or run_plp has had close() requested by the
\* time its try statement is left, on every way out of it: no page without a
\* close request exists when the next page is about to be created, between
\* units of work, or after the function returned.
C12_CloseRequested ==
    /\ pc \notin InTry => page # "open"
    /\ pc \in {"pdp_new_page", "plp_new_page"} => page = None

\* the walk ended in the handler, with a page that had been opened, and
\* main went on to its end
C12_Witness ==
    /\ pc = "exited"
    /\ run_mode = "plp"
    /\ page = "closed"
    /\ opened = 2
    /\ Output[Len(rows)].status = "FAIL"

\* C13: at most one page is open in the browser context at any time.  The
\* pages told apart here are the warmup page and the page of the unit of work
\* in progress; "open" is a page on which no close() has returned.
C13_AtMostOnePageOpen ==
    ~(warm_page = "open" /\ page = "open")

\* the output has a row of status OK
SomeRowOk == \E i \in 1..Len(rows) : Output[i].status = "OK"

\* C15, as claimed: whenever the process has ended, its exit status is 0 if
\* and only if the output has a row of status OK.
C15_ExitZeroIffOk ==
    pc \in {"exited", "main_raised"} => (exit_code = 0 <=> SomeRowOk)

\* C15, amended: when main returns, the exit status is 0 if and only if the
\* output has a row of status OK, and 1 otherwise (no rows, no row OK, the
\* PLP URL missing, the mode unknown).  When client.start, client.close or
\* a writer raises, the exit status is 1 whatever the rows are.  So status 0
\* always means a row of status OK.
C15_ExitZeroIffOkOnReturn ==
    /\ pc = "exited" => (exit_code = 0 <=> SomeRowOk)
    /\ pc = "exited" => exit_code \in {0, 1}
    /\ pc = "main_raised" => exit_code = 1
    /\ pc \notin {"exited", "main_raised"} => exit_code = None
    /\ (run_mode = "other" \/ (run_mode = "plp" /\ plp_url = ""))
          => (rows = <<>> /\ (pc = "exited" => exit_code = 1))

\* a blocked URL and a scraped one: main returned 0
C15_Witness ==
    /\ pc = "exited"
    /\ run_mode = "pdp"
    /\ exit_code = 0
    /\ Len(rows) = 2
    /\ Output[1].status = "BLOCK"
    /\ Output[2].status = "OK"

\* ------------------------------------------------------- pure functions
\* Strings are sequences of characters.  A URL is a sequence of "/" and of
\* chunks that hold no "/" at either end, which is all rstrip("/") and
\* startswith("/") look at.
Host == "https://site.example"
BaseTailChunks == {"/", "cat"}
PathChunks == {"/", "p", "123"}
Bases == {<<Host>> \o t : t \in SeqsUpTo(BaseTailChunks, MaxBaseTail)}
Paths == SeqsUpTo(PathChunks, MaxPathLen) \cup {<<Host, "/", "p">>}

DIGITS == {"0", "1", "2", "3", "4", "5", "6", "7"}
DigitVal ==
    [c \in DIGITS |-> CASE c = "0" -> 0 [] c = "1" -> 1 [] c = "2" -> 2 [] c = "3" -> 3
                         [] c = "4" -> 4 [] c = "5" -> 5 [] c = "6" -> 6 [] c = "7" -> 7]
PriceChars == {"0", "1", ",", ".", "$"}
\* the strings of tests/test_parse_price.py, and '12,34'
TestPrices ==
    { <<"$", "1", "2", ",", "3", "4", "5">>,
      <<"$", "1", "2", ",", "3", "4", "5", ".", "6", "7">>,
      <<"1", "2", ".", "3", "4", "5", ",", "6", "7">>,
      <<"1", "2", ",", "3", "4">> }
Prices == SeqsUpTo(PriceChars, MaxPriceLen) \cup TestPrices

\* min(a, b)
Min(a, b) == IF a <= b THEN a ELSE b

\* base + 0.5 * attempt, without the cap
_retry_delay_uncapped(attempt_no) ==
    LET base == 2 ^ attempt_no
    IN  2 * base + attempt_no
\* _retry_delay, in half seconds (0.5 * attempt is then whole): 30 is 15.0
_retry_delay(attempt_no) ==
    LET base == 2 ^ attempt_no
    IN  Min(30, 2 * base + attempt_no)

\* str.rstrip("/")
RECURSIVE rstrip(_)
rstrip(str) ==
    IF str # <<>> /\ str[Len(str)] = "/" THEN rstrip(SubSeq(str, 1, Len(str) - 1))
    ELSE str

\* parse_plp_products, lines 203-205: the product_url of one product
normalized_url(base_url, product_url) ==
    IF product_url # <<>> /\ product_url[1] = "/"
    THEN rstrip(base_url) \o product_url
    ELSE product_url

\* str.count, str.replace(c, ""), str.replace(a, b), str.rfind (0: not found)
count(str, c) == Len(SelectSeq(str, LAMBDA x : x = c))
remove(str, c) == SelectSeq(str, LAMBDA x : x # c)
replace(str, a, b) == [i \in 1..Len(str) |-> IF str[i] = a THEN b ELSE str[i]]
rfind(str, c) ==
    LET at == {i \in 1..Len(str) : str[i] = c}
    IN  IF at = {} THEN 0 ELSE CHOOSE i \in at : \A j \in at : j <= i

\* re.sub(r"[^0-9,\.]", "", value)
filtered(value) == SelectSeq(value, LAMBDA x : x \in DIGITS \cup {",", "."})

\* the number a string of digits spells
RECURSIVE ToNat(_)
ToNat(str) ==
    IF str = <<>> THEN 0
    ELSE 10 * ToNat(SubSeq(str, 1, Len(str) - 1)) + DigitVal[str[Len(str)]]

\* m / 10^k without trailing zeros in its fraction: equal pairs, equal numbers
RECURSIVE Decimal(_, _)
Decimal(m, k) ==
    IF k > 0 /\ m % 10 = 0 THEN Decimal(m \div 10, k - 1) ELSE <<m, k>>

\* line 62: float(raw) raises ValueError on a string that is no number: one
\* with a comma left, with two periods, or without a digit
float_raises(raw) ==
    \/ count(raw, ",") > 0
    \/ count(raw, ".") > 1
    \/ remove(raw, ".") = <<>>

\* float(raw) of line 62 for a string of digits, commas and periods: the
\* number as a pair <<m, k>> meaning m / 10^k, or <<>> for the ValueError
\* (lines 63-64 return None on it)
float(raw) ==
    IF float_raises(raw)
    THEN <<>>
    ELSE LET dot == rfind(raw, ".")
         IN  Decimal(ToNat(remove(raw, ".")), IF dot = 0 THEN 0 ELSE Len(raw) - dot)

\* the comparison of line 51 the other way round
DecimalIsPeriod(raw) == rfind(raw, ".") > rfind(raw, ",")
\* line 51: raw.rfind(",") > raw.rfind(".")
DecimalIsComma(raw) == rfind(raw, ",") > rfind(raw, ".")

\* two digits or fewer after the comma
CommaIsDecimalUpToTwo(raw) == Len(raw) - rfind(raw, ",") <= 2
\* lines 56-57: len(raw.split(",")[-1]) == 2
CommaIsDecimal(raw) == Len(raw) - rfind(raw, ",") = 2

\* lines 45-60: the filtered string, its separators settled
normalized(value) ==
    LET raw0 == filtered(value)
        raw1 == IF count(raw0, ",") > 1 /\ count(raw0, ".") = 0
                THEN remove(raw0, ",") ELSE raw0
        raw2 == IF count(raw1, ".") > 1 /\ count(raw1, ",") = 0
                THEN remove(raw1, ".") ELSE raw1
    IN  IF count(raw2, ",") > 0 /\ count(raw2, ".") > 0
        THEN IF DecimalIsComma(raw2)
             THEN replace(remove(raw2, "."), ",", ".")
             ELSE remove(raw2, ",")
        ELSE IF count(raw2, ",") > 0 /\ count(raw2, ".") = 0
        THEN IF CommaIsDecimal(raw2)
             THEN replace(raw2, ",", ".")
             ELSE remove(raw2, ",")
        ELSE raw2

\* parse_price, lines 42-64; <<>> stands for None
parse_price(value) ==
    IF value = <<>> THEN <<>>
    ELSE float(normalized(value))

\* float(raw) outside a try statement
no_except == FALSE
\* lines 61-64: the ValueError of float(raw) is caught, None is returned
except_ValueError == TRUE

\* parse_price raises: the ValueError of line 62, were it not caught
parse_price_raises(value) ==
    value # <<>> /\ float_raises(normalized(value)) /\ ~except_ValueError

\* the characters of a text: a letter, the space, the tab, the non-breaking
\* space "\xa0"
NBSP == "nbsp"
TAB == "tab"
WHITESPACE == {" ", TAB, NBSP}
TextChars == {"a"} \cup WHITESPACE
Texts == SeqsUpTo(TextChars, MaxTextLen)

\* re.sub(r"\s\s", " ", str): every two whitespace characters become a space
RECURSIVE sub_whitespace_pairs(_)
sub_whitespace_pairs(str) ==
    IF str = <<>> THEN <<>>
    ELSE IF Len(str) >= 2 /\ str[1] \in WHITESPACE /\ str[2] \in WHITESPACE
         THEN <<" ">> \o sub_whitespace_pairs(SubSeq(str, 3, Len(str)))
         ELSE <<str[1]>> \o sub_whitespace_pairs(Tail(str))
\* line 38, re.sub(r"\s+", " ", str): every run of whitespace becomes a space
RECURSIVE sub_whitespace(_)
sub_whitespace(str) ==
    IF str = <<>> THEN <<>>
    ELSE IF str[1] \in WHITESPACE
         THEN IF Len(str) >= 2 /\ str[2] \in WHITESPACE
              THEN sub_whitespace(Tail(str))
              ELSE <<" ">> \o sub_whitespace(Tail(str))
         ELSE <<str[1]>> \o sub_whitespace(Tail(str))

\* str.strip()
RECURSIVE strip(_)
strip(str) ==
    IF str = <<>> THEN <<>>
    ELSE IF str[1] \in WHITESPACE THEN strip(Tail(str))
    ELSE IF str[Len(str)] \in WHITESPACE THEN strip(SubSeq(str, 1, Len(str) - 1))
    ELSE str

\* clean_text, lines 35-39
clean_text(text) ==
    IF text = <<>> THEN <<>>
    ELSE strip(sub_whitespace(replace(text, NBSP, " ")))

\* lines 49-54 and 65: the selectors of the price and of the promotion
PRICE_SELECTORS ==
    << "[data-testid='price']", ".price", ".product-price",
       "meta[property='product:price:amount']" >>
PROMO_SELECTORS ==
    << ".price--promo", ".price-promo", "[data-testid='price-promo']" >>

\* what soup.select_one(selector) finds: no element, or an element with its
\* text (for the <meta> element, its content attribute)
ElementTexts == { <<>>, <<NBSP>>, <<"1">>, <<"$", "1", "0">> }
Elements ==
    { [present |-> FALSE, text |-> <<>>] }
        \cup { [present |-> TRUE, text |-> t] : t \in ElementTexts }
\* a document, as the elements its selectors find
Soups ==
    [ price : [1..Len(PRICE_SELECTORS) -> Elements],
      promo : [1..Len(PROMO_SELECTORS) -> Elements] ]

\* coppel_parser._get_text, lines 16-19
_get_text(el) == IF ~el.present THEN <<>> ELSE clean_text(el.text)

\* lines 58-61: the text an element adds to price_candidates
candidate(selector, el) ==
    IF selector = "meta[property='product:price:amount']"
    THEN el.text
    ELSE _get_text(el)

\* lines 48-61: one candidate per selector that finds an element, in the
\* order of the selectors, from selector i on
RECURSIVE price_candidates(_, _)
price_candidates(found, i) ==
    IF i > Len(PRICE_SELECTORS) THEN <<>>
    ELSE IF ~found[i].present
         THEN price_candidates(found, i + 1)
         ELSE <<candidate(PRICE_SELECTORS[i], found[i])>>
              \o price_candidates(found, i + 1)

\* coppel_parser._first_text, lines 22-29, from selector i on
RECURSIVE _first_text(_, _)
_first_text(found, i) ==
    IF i > Len(found) THEN <<>>
    ELSE IF found[i].present /\ _get_text(found[i]) # <<>>
         THEN _get_text(found[i])
         ELSE _first_text(found, i + 1)

\* extract_prices, lines 47-69
extract_prices(soup) ==
    LET cands == price_candidates(soup.price, 1)
        regular == IF cands # <<>> THEN parse_price(cands[1]) ELSE <<>>
        promo_text == _first_text(soup.promo, 1)
        promo == IF promo_text # <<>> THEN parse_price(promo_text) ELSE <<>>
    IN  [ regular |-> regular,
          promo |-> IF promo = <<>> /\ Len(cands) > 1
                    THEN parse_price(cands[2])
                    ELSE promo ]

\* the loop of line 91 without its `break`: "load" is tried in any case
load_always_attempted(g1) == TRUE
\* lines 91-97: the loop goes on to "load" only when the goto under
\* "domcontentloaded" raised; `break` (line 95) ends it otherwise
load_attempted(g1) == g1 = "raise"

\* the readiness conditions open_page navigates under, in order
wait_until_tried(g1) ==
    IF load_attempted(g1) THEN <<"domcontentloaded", "load">>
    ELSE <<"domcontentloaded">>

\* lines 98-101: wait_for_load_state("networkidle") sits in a try of its own
idle_timeout_raises(idle) == FALSE

\* what wait_for_load_state("networkidle") does
IdleOutcomes == {"idle", "timeout"}

\* one call is chosen; nothing else of the program runs
InitFn ==
    /\ \/ \E a \in 1..MaxAttemptArg : fn_call = [fn |-> "_retry_delay", arg |-> a]
       \/ \E b \in Bases, u \in Paths :
             fn_call = [fn |-> "parse_plp_products", arg |-> [base_url |-> b, product_url |-> u]]
       \/ \E v \in Prices : fn_call = [fn |-> "parse_price", arg |-> v]
       \/ \E t \in Texts : fn_call = [fn |-> "clean_text", arg |-> t]
       \/ \E soup \in Soups : fn_call = [fn |-> "extract_prices", arg |-> soup]
       \/ \E g1 \in GotoOutcomes, g2 \in GotoOutcomes, idle \in IdleOutcomes :
             fn_call = [fn |-> "open_page", arg |-> [g1 |-> g1, g2 |-> g2, idle |-> idle]]
    /\ fn_ret = None
    /\ pc = "fn_call"
    /\ settings = [max_retries_per_url |-> 0, max_runtime_sec |-> 0,
                   enable_stealth |-> FALSE, debug_save |-> FALSE]
    /\ run_mode = None
    /\ urls = <<>>
    /\ plp_url = ""
    /\ now = 0
    /\ start_time = 0
    /\ objs = <<>>
    /\ rows = <<>>
    /\ row = 0
    /\ page = None
    /\ exc = None
    /\ brk = FALSE
    /\ urlIdx = 1
    /\ attempt = 0
    /\ start = 0
    /\ blocked = FALSE
    /\ started = 0
    /\ outcomes = <<>>
    /\ cur = None
    /\ page_index = 0
    /\ seen = {}
    /\ products = <<>>
    /\ next_button = None
    /\ token = None
    /\ href = None
    /\ opened = 0
    /\ confirmed = FALSE
    /\ advanced = FALSE
    /\ warm_page = None
    /\ exit_code = None

\* the call returns what the function computes
Returns(fn, value) ==
    /\ pc = "fn_call"
    /\ fn_call.fn = fn
    /\ fn_ret' = value
    /\ pc' = "fn_returned"
    /\ UNCHANGED <<settings, now, start_time, objs, rows, row, page, exc, brk>>
    /\ UNCHANGED <<pdpVars, plpVars, mainVars, fn_call>>

\* the call raises instead
Raises(fn) ==
    /\ pc = "fn_call"
    /\ fn_call.fn = fn
    /\ pc' = "fn_raised"
    /\ UNCHANGED <<settings, now, start_time, objs, rows, row, page, exc, brk>>
    /\ UNCHANGED <<pdpVars, plpVars, mainVars, fnVars>>

CallRetryDelay == Returns("_retry_delay", _retry_delay(fn_call.arg))

CallParsePlpProducts ==
    Returns("parse_plp_products",
            normalized_url(fn_call.arg.base_url, fn_call.arg.product_url))

CallParsePrice ==
    /\ fn_call.fn = "parse_price"
    /\ IF parse_price_raises(fn_call.arg)
       THEN Raises("parse_price")
       ELSE Returns("parse_price", parse_price(fn_call.arg))

CallCleanText ==
    /\ fn_call.fn = "clean_text"
    /\ Returns("clean_text", clean_text(fn_call.arg))

\* PlaywrightClient.open_page, lines 89-102; g2 is what the goto under
\* "load" does when it is made
CallOpenPage ==
    /\ fn_call.fn = "open_page"
    /\ IF \/ open_page_raises(fn_call.arg.g1, fn_call.arg.g2)
          \/ idle_timeout_raises(fn_call.arg.idle)
       THEN Raises("open_page")
       ELSE Returns("open_page",
                    [ tried |-> wait_until_tried(fn_call.arg.g1),
                      status |-> open_page_status(fn_call.arg.g1, fn_call.arg.g2) ])

CallExtractPrices ==
    /\ fn_call.fn = "extract_prices"
    /\ Returns("extract_prices", extract_prices(fn_call.arg))

NextFn ==
    \/ CallRetryDelay \/ CallParsePlpProducts \/ CallParsePrice
    \/ CallCleanText \/ CallOpenPage \/ CallExtractPrices

SpecFn == InitFn /\ [][NextFn]_vars

\* ------------------------------------------- properties of the functions
Returned(fn) == pc = "fn_returned" /\ fn_call.fn = fn

\* C16: for every attempt number a >= 1, _retry_delay(a) is at most
\* _retry_delay(a + 1) and at most 15 seconds (30 half seconds), and it is
\* min(15, 2^a + a/2).
C16_RetryDelayMonotoneCapped ==
    Returned("_retry_delay")
        => /\ fn_ret <= _retry_delay(fn_call.arg + 1)
           /\ fn_ret <= 30
           /\ fn_ret = Min(30, 2 ^ (fn_call.arg + 1) + fn_call.arg)
           /\ fn_call.arg <= 3 => fn_ret < 30

\* attempt 4 is the first whose delay is the cap
C16_Witness ==
    /\ Returned("_retry_delay")
    /\ fn_call.arg = 4
    /\ fn_ret = 30

\* C18: a root-relative product path is rewritten to an absolute URL on the
\* origin of the listing URL: the origin followed by the path, whatever
\* path the listing URL itself has.
C18_ResolvedOnOrigin ==
    (Returned("parse_plp_products")
       /\ Len(fn_call.arg.product_url) >= 2
       /\ fn_call.arg.product_url[1] = "/"
       /\ fn_call.arg.product_url[2] # "/")
        => fn_ret = <<Host>> \o fn_call.arg.product_url

\* the string the claim describes: the other separator removed everywhere,
\* the rightmost separator made the decimal point
RightmostAsDecimal(raw) ==
    LET last == IF rfind(raw, ",") > rfind(raw, ".") THEN "," ELSE "."
        other == IF last = "," THEN "." ELSE ","
        kept == {i \in 1..Len(raw) : raw[i] # other}
        r == rfind(raw, last)
        RECURSIVE Build(_)
        Build(i) ==
            IF i = 0 THEN <<>>
            ELSE Build(i - 1) \o (IF i \notin kept THEN <<>>
                                  ELSE IF i = r THEN <<".">>
                                  ELSE <<raw[i]>>)
    IN  Build(Len(raw))

\* C19: when the filtered input has a comma and a period, parse_price
\* returns the number read with the rightmost separator as the decimal point
\* and every occurrence of the other separator removed (nothing when that
\* is no number); '$12,345.67' and '12.345,67' both give 12345.67.
C19_BothSeparators ==
    Returned("parse_price")
        => LET raw == filtered(fn_call.arg)
           IN  /\ (count(raw, ",") >= 1 /\ count(raw, ".") >= 1)
                     => fn_ret = float(RightmostAsDecimal(raw))
               /\ fn_call.arg \in { <<"$", "1", "2", ",", "3", "4", "5", ".", "6", "7">>,
                                     <<"1", "2", ".", "3", "4", "5", ",", "6", "7">> }
                     => fn_ret = <<1234567, 2>>

\* '12.345,67' gave 12345.67
C19_Witness ==
    /\ Returned("parse_price")
    /\ fn_call.arg = <<"1", "2", ".", "3", "4", "5", ",", "6", "7">>
    /\ fn_ret = <<1234567, 2>>

\* C20: when the filtered input has commas and no period: with more than one
\* comma all of them are removed; a single comma is the decimal point when
\* exactly two characters follow it, and is removed otherwise.  '$12,345'
\* gives 12345.0 and '12,34' gives 12.34.
C20_CommasOnly ==
    Returned("parse_price")
        => LET raw == filtered(fn_call.arg)
               at == {i \in 1..Len(raw) : raw[i] = ","}
           IN  /\ (Cardinality(at) > 1 /\ count(raw, ".") = 0)
                     => fn_ret = float(remove(raw, ","))
               /\ (Cardinality(at) = 1 /\ count(raw, ".") = 0)
                     => \A i \in at :
                          fn_ret = IF Len(raw) = i + 2
                                   THEN float([raw EXCEPT ![i] = "."])
                                   ELSE float(SubSeq(raw, 1, i - 1) \o SubSeq(raw, i + 1, Len(raw)))
               /\ fn_call.arg = <<"$", "1", "2", ",", "3", "4", "5">> => fn_ret = <<12345, 0>>
               /\ fn_call.arg = <<"1", "2", ",", "3", "4">> => fn_ret = <<1234, 2>>

\* '12,34' gave 12.34
C20_Witness ==
    /\ Returned("parse_price")
    /\ fn_call.arg = <<"1", "2", ",", "3", "4">>
    /\ fn_ret = <<1234, 2>>

\* C21: parse_price never raises, and it returns None (<<>>) for the empty
\* string, for a string without a digit (lone separators among them) and for
\* a string whose separators settle to more than one decimal point; what it
\* returns otherwise is a number.
C21_ParsePriceFailsSoft ==
    /\ pc = "fn_raised" => fn_call.fn # "parse_price"
    /\ Returned("parse_price")
          => /\ fn_ret = <<>> \/ (Len(fn_ret) = 2 /\ fn_ret[1] >= 0 /\ fn_ret[2] >= 0)
             /\ fn_call.arg = <<>> => fn_ret = <<>>
             /\ (\A i \in 1..Len(fn_call.arg) : fn_call.arg[i] \notin DIGITS)
                   => fn_ret = <<>>
             /\ count(normalized(fn_call.arg), ".") > 1 => fn_ret = <<>>

\* '1,.,1' settles to '1..1': None
C21_Witness ==
    /\ Returned("parse_price")
    /\ fn_call.arg = <<"1", ",", ".", ",", "1">>
    /\ count(normalized(fn_call.arg), ".") = 2
    /\ fn_ret = <<>>

\* C22: clean_text is idempotent: cleaning what it returned gives the same
\* string; what it returns has single spaces as its only whitespace, none
\* of them at either end.
C22_CleanTextIdempotent ==
    Returned("clean_text")
        => /\ clean_text(fn_ret) = fn_ret
           /\ \A i \in 1..Len(fn_ret) :
                 /\ fn_ret[i] \in WHITESPACE => fn_ret[i] = " "
                 /\ fn_ret[i] = " " => (1 < i /\ i < Len(fn_ret) /\ fn_ret[i + 1] # " ")

\* a text with a leading space and a run of a non-breaking space and a tab
C22_Witness ==
    /\ Returned("clean_text")
    /\ fn_call.arg = <<" ", "a", NBSP, TAB, "a">>
    /\ fn_ret = <<"a", " ", "a">>

\* C24: open_page navigates under "load" if and only if the goto under
\* "domcontentloaded" raised; it raises for no outcome of the two gotos and
\* of the network-idle wait; the status it returns is absent when both gotos
\* raised or the goto that returned gave no response, and the status of the
\* response otherwise.
C24_OpenPageFallback ==
    /\ pc = "fn_raised" => fn_call.fn # "open_page"
    /\ Returned("open_page")
          => LET g1 == fn_call.arg.g1
                 g2 == fn_call.arg.g2
                 load_tried == \E i \in 1..Len(fn_ret.tried) : fn_ret.tried[i] = "load"
             IN  /\ fn_ret.tried[1] = "domcontentloaded"
                 /\ load_tried <=> g1 = "raise"
                 /\ (g1 = "raise" /\ g2 = "raise") => fn_ret.status = None
                 /\ (g1 = "noresponse" \/ (g1 = "raise" /\ g2 = "noresponse"))
                       => fn_ret.status = None
                 /\ g1 = "200" => fn_ret.status = "200"
                 /\ (g1 = "raise" /\ g2 = "200") => fn_ret.status = "200"

\* the first goto raised, the second gave no response, the wait timed out:
\* open_page returned, with no status
C24_Witness ==
    /\ Returned("open_page")
    /\ fn_call.arg = [g1 |-> "raise", g2 |-> "noresponse", idle |-> "timeout"]
    /\ fn_ret.tried = <<"domcontentloaded", "load">>
    /\ fn_ret.status = None

\* the first text of the price chain that is not empty, from selector i on
RECURSIVE FirstNonEmptyCandidate(_, _)
FirstNonEmptyCandidate(found, i) ==
    IF i > Len(PRICE_SELECTORS) THEN <<>>
    ELSE IF found[i].present /\ candidate(PRICE_SELECTORS[i], found[i]) # <<>>
         THEN candidate(PRICE_SELECTORS[i], found[i])
         ELSE FirstNonEmptyCandidate(found, i + 1)

\* C26: the regular price extract_prices returns is parse_price of the text
\* of the first selector of the price chain whose element has non-empty
\* text; an element found with empty text is passed over for a later one.
C26_RegularFromFirstNonEmpty ==
    Returned("extract_prices")
        => fn_ret.regular = parse_price(FirstNonEmptyCandidate(fn_call.arg.price, 1))

\* C27: every row of the output of run_plp, page rows and product rows
\* alike, had its elapsed_sec assigned exactly once, before it was appended.
C27_StampedOnceBeforeAppend ==
    run_mode = "plp" => \A i \in 1..Len(rows) : Output[i].stamped = 1

\* C28: with max_retries_per_url >= 1, every row in the output of run_pdp
\* has status OK, BLOCK or RETRY_EXHAUSTED: FAIL is the status of a row
\* between two attempts only, never of a row that was appended.
C28_NoFailInOutput ==
    (run_mode = "pdp" /\ settings.max_retries_per_url >= 1)
        => /\ \A i \in 1..Len(rows) :
                Output[i].status \in {"OK", "BLOCK", "RETRY_EXHAUSTED"}
           /\ (pc \in {"pdp_append", "pdp_sleep"})
                => objs[row].status \in {"OK", "BLOCK", "RETRY_EXHAUSTED"}

\* the first attempt failed and left FAIL in the row; the second one was
\* blocked, and the row came out with BLOCK
C28_Witness ==
    /\ PdpRowOut
    /\ settings.max_retries_per_url = 2
    /\ outcomes = <<"exc", "block">>
    /\ LastRow.status = "BLOCK"
    /\ LastRow.attempts = 2

\* C29: a row in the output of run_pdp with status OK has an empty error
\* field, whatever attempts on its URL failed before the one that succeeded.
C29_OkRowHasNoError ==
    run_mode = "pdp" => \A i \in 1..Len(rows) :
                            Output[i].status = "OK" => Output[i].error = ""

====
